---------------------------- MODULE Spec2Model ----------------------------
(***************************************************************************)
(* The slot-filling booking dialogue of the two chat back ends of the      *)
(* repository: chatserver.py (sessions kept by session_store.py) and       *)
(* app.py (sessions kept in the module itself).                            *)
(*                                                                         *)
(* A message is what the handlers examine of the request text after its    *)
(* strip(): the lower-cased text, the keywords found in it by `in`, its    *)
(* digit count, the groups the name patterns capture, and what the date    *)
(* parser makes of it.  The clock counts days.                             *)
(***************************************************************************)
EXTENDS Integers, Sequences, FiniteSets, TLC

VARIABLES server, sessions, file, now, turns, last, happy, log, threads

vars == <<server, sessions, file, now, turns, last, happy, log, threads>>

---------------------------------------------------------------------------
(* Bounds of the model *)

\* requests chatserver.py handles in one behaviour
MaxTurns == 5

\* requests app.py handles in one behaviour
MaxAppTurns == 3

\* last value of the clock (the clock starts at 1)
MaxClock == 3

\* requests of one behaviour of the long conversation with app.py
MaxHistTurns == 12

\* requests of one behaviour of the short conversations over all messages
MaxWideTurns == 3

\* requests of one behaviour of the callers that choose their session id
MaxSessTurns == 4

\* requests of one behaviour of the conversations that go on after a booking
MaxRestartTurns == 4

\* requests of one behaviour of the threads of chatserver.py
MaxConcTurns == 3

\* last day on which a booking for a day of the week can start
MaxWeekClock == 7

\* requests of one behaviour of a booking for a day of the week
MaxWeekTurns == 2

---------------------------------------------------------------------------
(* Python's None and a present value *)

None == <<>>

Some(v) == <<v>>

\* Python truthiness of a slot value: None is false, a stored value is true
Filled(v) == v # None

Val(v) == v[1]

IsPrefix(s, t) == Len(s) <= Len(t) /\ SubSeq(t, 1, Len(s)) = s

---------------------------------------------------------------------------
(* Messages *)

\* text is the request's message, msg its strip(), low the lower case of msg
Plain(text, low, words) ==
    [text |-> text, msg |-> text, low |-> low, kw |-> {}, digits |-> 0,
     at |-> FALSE, dot |-> FALSE, emailRe |-> FALSE,
     csName |-> <<None, None, None>>,
     appName |-> <<None, None, None, None, None, None, None>>,
     words |-> words, alpha |-> FALSE, inN |-> None, parse |-> None, tz |-> FALSE]

m_haircut ==
    [Plain("I want a haircut", "i want a haircut", 4) EXCEPT
        !.kw = {"haircut", "cut"}]
m_massage ==
    [Plain("book a massage", "book a massage", 3) EXCEPT
        !.kw = {"book", "massage"}]
m_tomorrow ==
    [Plain("Tomorrow at 1pm", "tomorrow at 1pm", 3) EXCEPT
        !.kw = {"tomorrow"},
        !.digits = 1]
\* a date the parser resolves to day 0, before every value of the clock
m_pastdate ==
    [Plain("2020-01-01 10:00", "2020-01-01 10:00", 2) EXCEPT
        !.digits = 12,
        !.parse = Some(0)]
\* a date with a time zone: the parser returns an aware datetime, day 2
m_tz ==
    [Plain("2 Jan 3pm UTC", "2 jan 3pm utc", 4) EXCEPT
        !.digits = 2,
        !.parse = Some(2),
        !.tz = TRUE]
m_kai ==
    [Plain("My name is Kai", "my name is kai", 4) EXCEPT
        !.csName = <<None, Some("Kai"), None>>,
        !.appName = <<None, Some("Kai"), None, None, None, None, None>>]
m_sam ==
    [Plain("call me Sam", "call me sam", 3) EXCEPT
        !.csName = <<None, None, Some("Sam")>>,
        !.appName = <<None, None, None, Some("Sam"), None, None, None>>]
m_phone ==
    [Plain("07123456789", "07123456789", 1) EXCEPT
        !.digits = 11]
m_email ==
    [Plain("a@b.co", "a@b.co", 1) EXCEPT
        !.text = " a@b.co ",
        !.at = TRUE,
        !.dot = TRUE,
        !.emailRe = TRUE]
m_abc ==
    [Plain("abc", "abc", 1) EXCEPT
        !.alpha = TRUE]
m_cancel ==
    [Plain("cancel", "cancel", 1) EXCEPT
        !.kw = {"cancel"},
        !.alpha = TRUE]
m_pay ==
    Plain("pay now", "pay now", 2)
m_hours ==
    [Plain("opening hours", "opening hours", 2) EXCEPT
        !.kw = {"opening", "hours"}]
m_util ==
    [Plain("haircut opening on 2020-01-01?", "haircut opening on 2020-01-01?", 4) EXCEPT
        !.kw = {"opening", "haircut", "cut"},
        !.digits = 8,
        !.parse = Some(0)]
m_contactq ==
    [Plain("contact details", "contact details", 2) EXCEPT
        !.kw = {"contact", "details"}]
m_thanks ==
    [Plain("thanks", "thanks", 1) EXCEPT
        !.kw = {"thank"},
        !.alpha = TRUE]
m_kaiphone ==
    [Plain("My name is Kai, 07123456789", "my name is kai, 07123456789", 5) EXCEPT
        !.digits = 11,
        !.csName = <<None, Some("Kai"), None>>,
        !.appName = <<None, Some("Kai"), None, None, None, None, None>>]
m_rich ==
    [Plain("book haircut tomorrow, I'm Sam", "book haircut tomorrow, i'm sam", 5) EXCEPT
        !.kw = {"book", "haircut", "cut", "tomorrow"},
        !.csName = <<Some("Sam"), None, None>>,
        !.appName = <<Some("Sam"), None, None, None, None, None, None>>]
m_book ==
    [Plain("make a booking", "make a booking", 3) EXCEPT
        !.kw = {"book"}]
m_why ==
    [Plain("why?", "why?", 1) EXCEPT
        !.kw = {"why"}]
m_today ==
    [Plain("today", "today", 1) EXCEPT
        !.kw = {"today"},
        !.alpha = TRUE]
m_hi ==
    [Plain("hi there", "hi there", 2) EXCEPT
        !.kw = {"hi"}]
m_chip ==
    [Plain("Haircut", "haircut", 1) EXCEPT
        !.kw = {"haircut", "cut"},
        !.alpha = TRUE]
m_hairtom ==
    [Plain("book a haircut tomorrow", "book a haircut tomorrow", 4) EXCEPT
        !.kw = {"book", "haircut", "cut", "tomorrow"}]

\* the chip "Restart chat" that app.py's handle_smalltalk suggests
m_restart ==
    Plain("Restart chat", "restart chat", 2)
m_reset ==
    [Plain("restart", "restart", 1) EXCEPT
        !.alpha = TRUE]

\* the messages sent to chatserver.py
CsMessages ==
    {m_haircut, m_massage, m_tomorrow, m_pastdate, m_tz, m_kai,
     m_phone, m_email, m_abc, m_cancel, m_pay, m_util,
     m_thanks, m_kaiphone, m_rich}

\* the messages sent to app.py
AppMessages ==
    {m_massage, m_book, m_tomorrow, m_pastdate, m_kai, m_sam,
     m_phone, m_cancel, m_hours, m_thanks}

\* the two messages of the long conversation with app.py
HistMessages == {m_massage, m_hours}

\* the messages of the short conversations
WideCsMessages ==
    {m_haircut, m_tomorrow, m_today, m_pastdate, m_tz, m_kai, m_phone, m_cancel,
     m_pay, m_util, m_contactq, m_thanks, m_rich, m_hi, m_chip}

WideAppMessages ==
    {m_massage, m_book, m_tomorrow, m_today, m_pastdate, m_kai, m_phone, m_cancel,
     m_pay, m_hours, m_util, m_contactq, m_thanks, m_rich, m_hi, m_chip, m_why,
     m_hairtom}

\* the messages of the callers that choose their session id
SessCsMessages == {m_haircut, m_tomorrow, m_kaiphone, m_cancel, m_tz}

SessAppMessages == {m_massage, m_pastdate, m_kai, m_cancel}

\* the messages of the conversations that go on after a booking, a cancel or
\* a request for a restart
RestartCsMessages ==
    {m_haircut, m_tomorrow, m_kaiphone, m_restart, m_reset, m_cancel, m_thanks}

RestartAppMessages ==
    {m_massage, m_pastdate, m_kai, m_restart, m_reset, m_cancel, m_thanks}

WEEKDAYS ==
    <<"monday", "tuesday", "wednesday", "thursday", "friday", "saturday", "sunday">>

\* "on monday" ... "on sunday", i counting the weekdays from 1.  Sent to
\* app.py only, whose weekday branch answers before the parser's own reading
\* of the text is used
m_weekday(i) ==
    [Plain("on " \o WEEKDAYS[i], "on " \o WEEKDAYS[i], 2) EXCEPT
        !.kw = {WEEKDAYS[i]}]

\* the messages of the bookings for a day of the week
WeekMessages == {m_massage} \cup {m_weekday(i) : i \in 1 .. Len(WEEKDAYS)}

\* the messages of the requests handled concurrently: no utility command
\* and no date the handler raises on
ConcMessages == {m_haircut, m_massage, m_tomorrow, m_kaiphone}

Messages ==
    CsMessages \cup AppMessages \cup HistMessages \cup WideCsMessages
        \cup WideAppMessages \cup SessCsMessages \cup SessAppMessages
        \cup RestartCsMessages \cup RestartAppMessages \cup ConcMessages
        \cup WeekMessages

MsgOf(text) == CHOOSE m \in Messages : m.text = text

\* Python's `k in text.lower()`
In(k, m) == k \in m.kw

---------------------------------------------------------------------------
(* Configuration *)

SLOT_ORDER == <<"service", "datetime", "name", "contact">>

\* chatserver.py's catalog, each name with its synonyms
SERVICES == <<"Haircut", "Massage", "Nails">>

Lower(name) ==
    CASE name = "Haircut" -> "haircut"
      [] name = "Massage" -> "massage"
      [] name = "Nails" -> "nails"

SERVICE_SYNONYMS(name) ==
    CASE name = "haircut" -> <<"cut", "trim", "style">>
      [] name = "massage" -> <<"relaxation", "therapy">>
      [] name = "nails" -> <<"manicure", "pedicure">>

EmptySlots == [service |-> None, datetime |-> None, name |-> None, contact |-> None]


\* a reply: its template and the values formatted into it
Reply(text) == [text |-> text, args |-> EmptySlots]

ReplyWith(text, args) == [text |-> text, args |-> args]

\* str.capitalize() on the tokens the messages hold
capitalize(w) ==
    CASE w = "Kai" -> "Kai"
      [] w = "Sam" -> "Sam"
      [] w = "abc" -> "Abc"
      [] w = "thanks" -> "Thanks"
      [] w = "cancel" -> "Cancel"
      [] w = "ok" -> "Ok"
      [] w = "today" -> "Today"
      [] w = "friday" -> "Friday"
      [] w = "Haircut" -> "Haircut"
      [] w = "restart" -> "Restart"

---------------------------------------------------------------------------
(* session_store.py *)

MaxSessions == 2

SessionIds == 1 .. MaxSessions

\* uuid.uuid4(): an id no session of the store has
NewId(store) ==
    CHOOSE i \in SessionIds \ DOMAIN store :
        \A j \in SessionIds \ DOMAIN store : i <= j

default_session(sid) ==
    [id |-> sid, last_intent |-> None, slots |-> EmptySlots, bookings |-> <<>>]

\* mutant: an id the store does not hold is adopted for the new session
get_session_adopts(store, sid) ==
    IF sid = None
    THEN LET new == NewId(store)
         IN  [sid |-> new, created |-> TRUE,
              store |-> store @@ (new :> default_session(new))]
    ELSE IF Val(sid) \notin DOMAIN store
    THEN [sid |-> Val(sid), created |-> TRUE,
          store |-> store @@ (Val(sid) :> default_session(Val(sid)))]
    ELSE [sid |-> Val(sid), created |-> FALSE, store |-> store]

\* the session of the request, created under a new id when the request names
\* none or one the store does not hold
get_session(store, sid) ==
    IF sid = None \/ Val(sid) \notin DOMAIN store
    THEN LET new == NewId(store)
         IN  [sid |-> new, created |-> TRUE,
              store |-> store @@ (new :> default_session(new))]
    ELSE [sid |-> Val(sid), created |-> FALSE, store |-> store]

---------------------------------------------------------------------------
(* chatserver.py: helpers *)

RECURSIVE cs_detect_from(_, _)
cs_detect_from(i, m) ==
    IF i > Len(SERVICES) THEN None
    ELSE LET name == Lower(SERVICES[i])
             syn == SERVICE_SYNONYMS(name)
         IN  IF In(name, m) THEN Some(SERVICES[i])
             ELSE IF \E j \in 1 .. Len(syn) : In(syn[j], m) THEN Some(SERVICES[i])
             ELSE cs_detect_from(i + 1, m)

cs_detect_service(m) == cs_detect_from(1, m)

\* strftime("%A %d %b, %I:%M %p"): the weekday and the day of the year, no year
pretty(dt) == [weekday |-> dt % 7, day |-> dt % 365]

\* the datetime the text denotes at `now`, None when the parser raises
cs_resolve(m, t) ==
    IF In("today", m) THEN Some(t)
    ELSE IF In("tomorrow", m) THEN Some(t + 1)
    ELSE IF m.inN # None THEN Some(t + Val(m.inN))
    ELSE m.parse

\* `dt < now` raises TypeError when the parser returned an aware datetime:
\* datetime.now() is naive
cs_compare_raises(m, t) ==
    /\ ~In("today", m) /\ ~In("tomorrow", m) /\ m.inN = None
    /\ m.parse # None /\ m.tz

cs_parse_datetime_text(m, t) ==
    LET dt == cs_resolve(m, t)
    IN  IF dt = None THEN None
        ELSE IF Val(dt) < t THEN None
        ELSE Some([iso |-> Val(dt), pretty |-> pretty(Val(dt))])

RECURSIVE first_capture(_, _)
first_capture(caps, i) ==
    IF i > Len(caps) THEN None
    ELSE IF caps[i] # None THEN Some(capitalize(Val(caps[i])))
    ELSE first_capture(caps, i + 1)

cs_extract_name(m) == first_capture(m.csName, 1)

\* mutant: the phone test is left out
cs_is_valid_contact_email_only(m) == m.at /\ m.emailRe

cs_is_valid_contact(m) ==
    IF m.at /\ m.emailRe THEN TRUE
    ELSE m.digits >= 7

---------------------------------------------------------------------------
(* chatserver.py: the booking flow.  A frame is the slots so far and the   *)
(* response once a step has returned one.                                  *)

CsAckText == "Great, I've got you down for {s}. When would you like it?"
CsServicesText == "Here are the services: ..."
CsRejectText == "That time has already passed or wasn't clear. Could you pick a future slot?"
CsNameText == "What's your name?"
CsBadContactText == "That doesn't look like a valid phone or email. Could you try again?"
CsBookedText == "Booked {service} on {dt_display} for {name}. Confirm to {contact}. Pay now?"
CsWrongText == "Something went wrong, please try again."
CsPayText == "Here's your checkout link: https://example-payments/abc"
CsHoursText == "We're open {hours_text}"
CsContactText == "{contact_phone} {contact_email}"
CsCancelText == "Booking cancelled"
CsHelpText == "I mostly help with bookings, hours or contact. Want me to show you?"
CsErrorText == "Internal Error: {e}"

\* mutant: the service is detected and stored also when the slot is filled
cs_step_service_overwrites(f, m) ==
    LET s == cs_detect_service(m)
    IN  IF s # None
        THEN [f EXCEPT !.slots.service = s,
                       !.ret = Some(ReplyWith(CsAckText, [EmptySlots EXCEPT !.service = s]))]
        ELSE IF ~Filled(f.slots.service)
        THEN [f EXCEPT !.ret = Some(Reply(CsServicesText))]
        ELSE f

cs_step_service(f, m) ==
    IF ~Filled(f.slots.service)
    THEN LET s == cs_detect_service(m)
         IN  IF s # None
             THEN [f EXCEPT !.slots.service = s,
                            !.ret = Some(ReplyWith(CsAckText, [EmptySlots EXCEPT !.service = s]))]
             ELSE [f EXCEPT !.ret = Some(Reply(CsServicesText))]
    ELSE f

cs_step_datetime(f, m, t) ==
    IF f.ret # None THEN f
    ELSE IF Filled(f.slots.service) /\ ~Filled(f.slots.datetime)
    THEN LET dt_obj == cs_parse_datetime_text(m, t)
         IN  IF cs_compare_raises(m, t)
             THEN [f EXCEPT !.ret = Some(Reply(CsErrorText)), !.raised = TRUE]
             ELSE IF dt_obj # None
             THEN [f EXCEPT !.slots.datetime = dt_obj]
             ELSE [f EXCEPT !.ret = Some(Reply(CsRejectText))]
    ELSE f

cs_step_name(f, m) ==
    IF f.ret # None THEN f
    ELSE IF Filled(f.slots.service) /\ Filled(f.slots.datetime) /\ ~Filled(f.slots.name)
    THEN LET nm == cs_extract_name(m)
         IN  IF nm # None
             THEN [f EXCEPT !.slots.name = nm]
             ELSE [f EXCEPT !.ret = Some(Reply(CsNameText))]
    ELSE f

cs_step_contact(f, m) ==
    IF f.ret # None THEN f
    ELSE IF Filled(f.slots.service) /\ Filled(f.slots.datetime)
            /\ Filled(f.slots.name) /\ ~Filled(f.slots.contact)
    THEN IF cs_is_valid_contact(m)
         THEN [f EXCEPT !.slots.contact = Some(m.msg)]
         ELSE [f EXCEPT !.ret = Some(Reply(CsBadContactText))]
    ELSE f

AllFilled(slots) ==
    \A i \in 1 .. Len(SLOT_ORDER) : Filled(slots[SLOT_ORDER[i]])

\* the first slot of the order that is empty, None when all are filled
RECURSIVE missing_from(_, _)
missing_from(slots, i) ==
    IF i > Len(SLOT_ORDER) THEN None
    ELSE IF ~Filled(slots[SLOT_ORDER[i]]) THEN Some(SLOT_ORDER[i])
    ELSE missing_from(slots, i + 1)

cs_prompts(k) ==
    CASE k = "service" -> "Which service?"
      [] k = "datetime" -> "When would you like it?"
      [] k = "name" -> "What's your name?"
      [] k = "contact" -> "Your phone or email?"

\* mutant: the record takes the name from the contact slot
cs_booking_wrong_name(slots, t) ==
    [service |-> slots.service, datetime |-> slots.datetime, name |-> slots.contact,
     contact |-> slots.contact, created_at |-> t]

\* the booking record appended when all four slots are filled
cs_booking(slots, t) ==
    [service |-> slots.service, datetime |-> slots.datetime, name |-> slots.name,
     contact |-> slots.contact, created_at |-> t]

\* lines 223-248: the confirmation, else the next prompt
cs_finish(session, f, t) ==
    IF f.ret # None
    THEN [session |-> [session EXCEPT !.slots = f.slots], reply |-> Val(f.ret),
          raised |-> f.raised]
    ELSE IF AllFilled(f.slots)
    THEN [session |-> [session EXCEPT !.slots = f.slots,
                                      !.bookings = Append(@, cs_booking(f.slots, t))],
          reply |-> ReplyWith(CsBookedText,
                      [f.slots EXCEPT !.datetime = Some(Val(f.slots.datetime).pretty)]),
          raised |-> FALSE]
    ELSE LET k == missing_from(f.slots, 1)
         IN  [session |-> [session EXCEPT !.slots = f.slots],
              reply |-> IF k # None THEN Reply(cs_prompts(Val(k))) ELSE Reply(CsWrongText),
              raised |-> FALSE]

cs_handle_booking(session, m, t) ==
    LET f0 == [slots |-> session.slots, ret |-> None, raised |-> FALSE]
        f1 == cs_step_service(f0, m)
        f2 == cs_step_datetime(f1, m, t)
        f3 == cs_step_name(f2, m)
        f4 == cs_step_contact(f3, m)
    IN  cs_finish(session, f4, t)

SMALLTALK ==
    <<[key |-> "hi", replies |-> <<"Hey", "Hiya">>],
      [key |-> "thank", replies |-> <<"You're welcome">>],
      [key |-> "bye", replies |-> <<"See you">>]>>

\* random.choice(v), the draw given by `pick`
choice(v, pick) == v[((pick - 1) % Len(v)) + 1]

RECURSIVE cs_smalltalk_from(_, _, _)
cs_smalltalk_from(i, m, pick) ==
    IF i > Len(SMALLTALK) THEN None
    ELSE IF In(SMALLTALK[i].key, m) THEN Some(Reply(choice(SMALLTALK[i].replies, pick)))
    ELSE cs_smalltalk_from(i + 1, m, pick)

cs_handle_smalltalk(m, pick) == cs_smalltalk_from(1, m, pick)

\* the draws random.choice can make for the message
cs_draws(m) ==
    IF \E i \in 1 .. Len(SMALLTALK) : In(SMALLTALK[i].key, m) /\ Len(SMALLTALK[i].replies) > 1
    THEN 1 .. 2 ELSE {1}

\* mutant: cancel starts the session record afresh, bookings included
cs_cancel_drops_bookings(session) ==
    [session EXCEPT !.slots = [k \in DOMAIN EmptySlots |-> None], !.bookings = <<>>]

\* mutant: cancel keeps the name, as the cancel of app.py does
cs_cancel_keeps_name(session) ==
    [session EXCEPT !.slots = [k \in DOMAIN EmptySlots |->
                                    IF k = "name" THEN session.slots.name ELSE None]]

\* mutant: cancel ends the booking intent as well
cs_cancel_clears_intent(session) ==
    [session EXCEPT !.slots = [k \in DOMAIN EmptySlots |-> None], !.last_intent = None]

\* the cancel command: every slot back to None
cs_cancel(session) ==
    [session EXCEPT !.slots = [k \in DOMAIN EmptySlots |-> None]]

\* the utility command the message is matched as, in the order chat() tests them
cs_command(m) ==
    IF m.low \in {"pay", "pay now", "checkout"} THEN "pay"
    ELSE IF In("opening", m) THEN "hours"
    ELSE IF In("contact", m) /\ (In("details", m) \/ In("number", m) \/ In("email", m))
    THEN "contact"
    ELSE IF In("cancel", m) THEN "cancel"
    ELSE "none"

Answer(session, reply) == [session |-> session, reply |-> reply, raised |-> FALSE]

\* mutant: the booking intent is tested before the hours and contact queries
cs_chat_booking_first(session, m, t, pick) ==
    LET c == cs_command(m)
        booking == \/ session.last_intent = Some("booking")
                   \/ In("book", m)
                   \/ cs_detect_service(m) # None
    IN  IF c = "pay" THEN Answer(session, Reply(CsPayText))
        ELSE IF booking /\ c # "cancel"
        THEN cs_handle_booking([session EXCEPT !.last_intent = Some("booking")], m, t)
        ELSE IF c = "hours" THEN Answer(session, Reply(CsHoursText))
        ELSE IF c = "contact" THEN Answer(session, Reply(CsContactText))
        ELSE IF c = "cancel" THEN Answer(cs_cancel(session), Reply(CsCancelText))
        ELSE LET st == cs_handle_smalltalk(m, pick)
             IN  IF st # None THEN Answer(session, Val(st))
                 ELSE Answer(session, Reply(CsHelpText))

\* chat(), from the session get_session returned to the response; an exception
\* raised below it is answered with the error reply and nothing is saved
cs_chat(session, m, t, pick) ==
    LET c == cs_command(m)
    IN  IF c = "pay" THEN Answer(session, Reply(CsPayText))
        ELSE IF c = "hours" THEN Answer(session, Reply(CsHoursText))
        ELSE IF c = "contact" THEN Answer(session, Reply(CsContactText))
        ELSE IF c = "cancel" THEN Answer(cs_cancel(session), Reply(CsCancelText))
        ELSE IF session.last_intent = Some("booking") \/ In("book", m)
                \/ cs_detect_service(m) # None
        THEN cs_handle_booking([session EXCEPT !.last_intent = Some("booking")], m, t)
        ELSE LET st == cs_handle_smalltalk(m, pick)
             IN  IF st # None THEN Answer(session, Val(st))
                 ELSE Answer(session, Reply(CsHelpText))

---------------------------------------------------------------------------
(* app.py: session store and helpers *)

HistoryCap == 10

RetryCeiling == 2

app_default_session(sid) ==
    [id |-> sid, last_intent |-> None, current_step |-> None, retries |-> <<>>,
     slots |-> EmptySlots, history |-> <<>>, bookings |-> <<>>]

\* mutant: a request that names a session of the store gets the oldest one
app_get_session_oldest(store, sid) ==
    IF sid = None \/ Val(sid) \notin DOMAIN store
    THEN LET new == NewId(store)
         IN  [sid |-> new, created |-> TRUE,
              store |-> store @@ (new :> app_default_session(new))]
    ELSE [sid |-> CHOOSE i \in DOMAIN store : \A j \in DOMAIN store : i <= j,
          created |-> FALSE, store |-> store]

app_get_session(store, sid) ==
    IF sid = None \/ Val(sid) \notin DOMAIN store
    THEN LET new == NewId(store)
         IN  [sid |-> new, created |-> TRUE,
              store |-> store @@ (new :> app_default_session(new))]
    ELSE [sid |-> Val(sid), created |-> FALSE, store |-> store]

\* mutant: the history is never cut
remember_uncapped(session, user_msg, bot_reply) ==
    [session EXCEPT !.history = Append(session.history, <<user_msg, bot_reply>>)]

\* history.append, then the last ten entries
remember(session, user_msg, bot_reply) ==
    LET h == Append(session.history, <<user_msg, bot_reply>>)
    IN  [session EXCEPT !.history =
            IF Len(h) > HistoryCap THEN SubSeq(h, Len(h) - HistoryCap + 1, Len(h)) ELSE h]

\* BUSINESS["services"] holds plain names: a name, or its first word, in the text
RECURSIVE app_detect_from(_, _)
app_detect_from(i, m) ==
    IF i > Len(SERVICES) THEN None
    ELSE IF In(Lower(SERVICES[i]), m) THEN Some(SERVICES[i])
    ELSE app_detect_from(i + 1, m)

app_detect_service(m) == app_detect_from(1, m)

\* datetime.weekday() of a day of the clock: day 0 is a Monday
weekday(t) == t % 7

\* mutant: the target is today when today is the weekday named
days_ahead_same_day(i, w) == (i - w) % 7

days_ahead(i, w) ==
    LET d == (i - w) % 7
    IN  IF d = 0 THEN 7 ELSE d

RECURSIVE app_weekday_from(_, _, _)
app_weekday_from(i, m, t) ==
    IF i > Len(WEEKDAYS) THEN None
    ELSE IF In(WEEKDAYS[i], m)
    THEN Some([fmt |-> "%A %d %b, %I:%M %p", t |-> t + days_ahead(i - 1, weekday(t))])
    ELSE app_weekday_from(i + 1, m, t)

\* the display string of the date, never rejected for being past
app_parse_datetime_text(m, t) ==
    IF In("today", m) THEN Some([fmt |-> "today at %I:%M %p", t |-> t])
    ELSE IF In("tomorrow", m) THEN Some([fmt |-> "tomorrow at %I:%M %p", t |-> t + 1])
    ELSE IF app_weekday_from(1, m, t) # None THEN app_weekday_from(1, m, t)
    ELSE IF m.parse # None THEN Some([fmt |-> "%a %d %b, %I:%M %p", t |-> Val(m.parse)])
    ELSE None

app_extract_name(m) ==
    IF first_capture(m.appName, 1) # None THEN first_capture(m.appName, 1)
    ELSE IF m.words = 1 /\ m.alpha THEN Some(capitalize(m.msg))
    ELSE None

app_is_valid_contact(m) ==
    LET looks_email == m.at /\ m.dot
        looks_phone == m.digits >= 7
    IN  looks_email \/ looks_phone

classify_offscript(m) ==
    IF m.low = "" \/ m.low \in {"ok", "kl", "k", "hmm", "uh", "idk", "???"} THEN "silence"
    ELSE IF In("joke", m) \/ (\E w \in {"lol", "haha", "U+1F602", "U+1F923", "funny"} : In(w, m))
    THEN "fun"
    ELSE IF \E k \in {"why", "need", "what for", "reason", "privacy", "secure", "security"} :
                In(k, m)
    THEN "clarification"
    ELSE "irrelevant"

AppFunText == "Good one! ... Now, could you share your {need} so I can continue?"
AppClarifyText == "Great question - we ask for your {need} {expl} Could you share it now?"
AppSilenceText == "I didn't quite catch that - could you provide your {need} so I can continue?"
AppIrrelevantText == "Interesting! I'll note that - to complete your booking I still need your {need}. Could you share it?"
AppPauseText == "I'll pause here - whenever you're ready, say 'make a booking' to continue."
AppServicesText == "Here are the services we offer: ... Which one would you like to book?"
AppAskServiceText == "Sure, what service would you like to book at {name}?"
AppAskDatetimeText == "When would you like your appointment?"
AppAskNameText == "Got it. What's your name?"
AppAskContactText == "And finally, could you share your phone or email for confirmation?"
AppAskNextText == "What would you like to do next?"
AppBookedText == "Perfect, I've pencilled your {service} on {datetime} for {name}. Confirmation will be sent to {contact}. ..."
AppPayText == "Here's your secure checkout link: {url} ..."
AppHoursText == "We're open {hours_text}"
AppContactText == "You can reach us at {contact_phone} or {contact_email}"
AppCancelText == "Okay, I've cancelled your booking details here"
AppMeetText == "Nice to meet you, {nm}"
AppGreetNameText == "Hey {name}, great to see you again!"
AppDefaultNameText == "That's interesting, {name}. I mostly help with bookings, opening hours, or contact details. Want me to show you?"
AppDefaultText == "That's interesting. I mostly help with bookings, opening hours, or contact details. Want me to show you?"

\* a reply that names the step it asks for
StepReply(text, step) == [text |-> text, args |-> EmptySlots, step |-> step]

handle_offscript(m, step) ==
    LET category == classify_offscript(m)
    IN  IF category = "fun" THEN Some(StepReply(AppFunText, step))
        ELSE IF category = "clarification" THEN Some(StepReply(AppClarifyText, step))
        ELSE IF category = "silence" THEN Some(StepReply(AppSilenceText, step))
        ELSE IF category = "irrelevant" THEN Some(StepReply(AppIrrelevantText, step))
        ELSE None

Retries(session, step) ==
    IF step \in DOMAIN session.retries THEN session.retries[step] ELSE 0

retry_prompt(session, step, base_reply) ==
    LET retries == Retries(session, step)
    IN  IF retries >= RetryCeiling
        THEN [session |-> session, reply |-> Reply(AppPauseText)]
        ELSE [session |-> [session EXCEPT !.retries =
                              [k \in DOMAIN @ \cup {step} |->
                                  IF k = step THEN retries + 1 ELSE @[k]]],
              reply |-> base_reply]

app_fill_service(slots, m) ==
    IF ~Filled(slots.service) /\ app_detect_service(m) # None
    THEN [slots EXCEPT !.service = app_detect_service(m)] ELSE slots

app_fill_datetime(slots, m, t) ==
    IF ~Filled(slots.datetime) /\ app_parse_datetime_text(m, t) # None
    THEN [slots EXCEPT !.datetime = app_parse_datetime_text(m, t)] ELSE slots

app_fill_name(slots, m) ==
    IF ~Filled(slots.name) /\ app_extract_name(m) # None
    THEN [slots EXCEPT !.name = app_extract_name(m)] ELSE slots

app_fill_contact(slots, m) ==
    IF ~Filled(slots.contact) /\ app_is_valid_contact(m)
    THEN [slots EXCEPT !.contact = Some(m.msg)] ELSE slots

fill_slots_from_message(slots, m, t) ==
    app_fill_contact(app_fill_name(app_fill_datetime(app_fill_service(slots, m), m, t), m), m)

ask_for_step(step) ==
    CASE step = "service" -> StepReply(AppAskServiceText, step)
      [] step = "datetime" -> StepReply(AppAskDatetimeText, step)
      [] step = "name" -> StepReply(AppAskNameText, step)
      [] step = "contact" -> StepReply(AppAskContactText, step)
      [] OTHER -> Reply(AppAskNextText)

\* mutant: the order is walked from its end
RECURSIVE last_missing_from(_, _)
last_missing_from(slots, i) ==
    IF i < 1 THEN None
    ELSE IF ~Filled(slots[SLOT_ORDER[i]]) THEN Some(SLOT_ORDER[i])
    ELSE last_missing_from(slots, i - 1)

first_missing_slot_reversed(slots) == last_missing_from(slots, Len(SLOT_ORDER))

\* mutant: the walk starts at the second slot of the order
first_missing_slot_after_service(slots) == missing_from(slots, 2)

first_missing_slot(slots) == missing_from(slots, 1)

is_service_discovery_query(m) ==
    \E k \in {"what are the services", "tell me the services", "services", "menu",
              "options", "what can i book", "what do you offer", "available services",
              "price list", "service list"} : In(k, m)

\* lines 314-336: the booking appended, current_step and retries cleared
app_complete(session, t) ==
    [session |-> [session EXCEPT
                    !.bookings = Append(@,
                        [service |-> session.slots.service,
                         datetime |-> session.slots.datetime,
                         name |-> session.slots.name,
                         contact |-> session.slots.contact,
                         created_at |-> t]),
                    !.current_step = None,
                    !.retries = <<>>],
     reply |-> ReplyWith(AppBookedText, session.slots)]

\* lines 299-312: the reply while a slot is missing
app_ask(session, m, step) ==
    LET s1 == [session EXCEPT !.current_step = Some(step)]
        off == handle_offscript(m, step)
    IN  IF off # None
        THEN [session |-> s1, reply |-> Val(off)]
        ELSE retry_prompt(s1, step, ask_for_step(step))

app_handle_booking(session, m, t) ==
    LET s1 == [session EXCEPT !.slots = fill_slots_from_message(@, m, t)]
        step == first_missing_slot(s1.slots)
    IN  IF ~Filled(s1.slots.service) /\ is_service_discovery_query(m)
        THEN [session |-> s1, reply |-> StepReply(AppServicesText, "service")]
        ELSE IF step # None THEN app_ask(s1, m, Val(step))
        ELSE app_complete(s1, t)

APP_SMALLTALK ==
    [greeting |-> <<"Hey there", "Hiya", "Yo, what's up?">>,
     how_are_you |-> <<"I'm doing great, thanks. How about you?",
                       "Feeling chatty today. How are you?">>,
     thanks |-> <<"Anytime", "You're very welcome!", "No worries">>,
     bye |-> <<"Catch you later", "Bye! Take care", "See ya soon">>,
     joke |-> <<"Why don't skeletons fight? They don't have the guts!",
                "I tried to book a haircut... but couldn't make the cut!">>,
     hungry |-> <<"I can't cook but I can schedule your pampering.",
                  "Food is life but I'm here for bookings.">>]

app_handle_smalltalk(m, session, pick) ==
    IF \E w \in {"hi", "hello", "hey", "yo"} : In(w, m)
    THEN IF Filled(session.slots.name)
         THEN Some(ReplyWith(AppGreetNameText, [EmptySlots EXCEPT !.name = session.slots.name]))
         ELSE Some(Reply(choice(APP_SMALLTALK.greeting, pick)))
    ELSE IF In("how are you", m) THEN Some(Reply(choice(APP_SMALLTALK.how_are_you, pick)))
    ELSE IF In("thank", m) THEN Some(Reply(choice(APP_SMALLTALK.thanks, pick)))
    ELSE IF \E w \in {"bye", "goodbye", "later", "see ya"} : In(w, m)
    THEN Some(Reply(choice(APP_SMALLTALK.bye, pick)))
    ELSE IF In("joke", m) THEN Some(Reply(choice(APP_SMALLTALK.joke, pick)))
    ELSE IF In("hungry", m) \/ In("food", m)
    THEN Some(Reply(choice(APP_SMALLTALK.hungry, pick)))
    ELSE None

\* the draws random.choice can make for the message
app_draws(m) ==
    IF \E w \in {"hi", "hello", "hey", "yo", "how are you", "thank", "bye", "goodbye",
                 "later", "see ya", "joke", "hungry", "food"} : In(w, m)
    THEN 1 .. 3 ELSE {1}

\* the cancel command: the booking in progress cleared, the name kept
app_cancel(session) ==
    [session EXCEPT
        !.slots = [service |-> None, datetime |-> None,
                   name |-> session.slots.name, contact |-> None],
        !.current_step = None,
        !.retries = <<>>]

\* the utility command the message is matched as, in the order chat() tests them
app_command(m) ==
    IF m.low \in {"pay now", "pay", "checkout"} THEN "pay"
    ELSE IF In("opening", m) \/ In("hours", m) THEN "hours"
    ELSE IF \E k \in {"contact", "phone", "email"} : In(k, m) THEN "contact"
    ELSE IF In("cancel", m) THEN "cancel"
    ELSE "none"

\* chat() before remember(): the session and the reply of the branch taken
app_dispatch(session, m, t, pick) ==
    IF app_command(m) = "pay"
    THEN [session |-> session, reply |-> Reply(AppPayText)]
    ELSE IF app_command(m) = "hours"
    THEN [session |-> session, reply |-> Reply(AppHoursText)]
    ELSE IF app_command(m) = "contact"
    THEN [session |-> session, reply |-> Reply(AppContactText)]
    ELSE IF app_command(m) = "cancel"
    THEN [session |-> app_cancel(session), reply |-> Reply(AppCancelText)]
    ELSE IF app_extract_name(m) # None /\ ~Filled(session.slots.name)
    THEN [session |-> [session EXCEPT !.slots.name = app_extract_name(m)],
          reply |-> ReplyWith(AppMeetText, [EmptySlots EXCEPT !.name = app_extract_name(m)])]
    ELSE IF session.last_intent = Some("booking") \/ In("book", m)
    THEN app_handle_booking([session EXCEPT !.last_intent = Some("booking")], m, t)
    ELSE IF app_handle_smalltalk(m, session, pick) # None
    THEN [session |-> session, reply |-> Val(app_handle_smalltalk(m, session, pick))]
    ELSE [session |-> session,
          reply |-> IF Filled(session.slots.name)
                    THEN ReplyWith(AppDefaultNameText,
                                   [EmptySlots EXCEPT !.name = session.slots.name])
                    ELSE Reply(AppDefaultText)]

\* mutant: the cancel branch returns without remember()
app_chat_cancel_unrecorded(session, m, t, pick) ==
    LET r == app_dispatch(session, m, t, pick)
    IN  [session |-> IF app_command(m) = "cancel" THEN r.session
                     ELSE remember(r.session, m.msg, r.reply),
         reply |-> r.reply]

app_chat(session, m, t, pick) ==
    LET r == app_dispatch(session, m, t, pick)
    IN  [session |-> remember(r.session, m.msg, r.reply), reply |-> r.reply]

---------------------------------------------------------------------------
(* The happy-path script of run_all_tests.py, followed per session *)

\* one turn per slot
HappyLen == Len(SLOT_ORDER)

\* the k-th message of the script, as the test describes it
HappyClass(k, m, t) ==
    CASE k = 1 -> cs_detect_service(m) # None
      [] k = 2 -> /\ cs_resolve(m, t) # None
                  /\ Val(cs_resolve(m, t)) > t
                  /\ cs_extract_name(m) = None
      [] k = 3 -> cs_extract_name(m) # None
      [] k = 4 -> m.digits >= 7

OffScript == [on |-> FALSE, msgs |-> <<>>]

HappyNext(h, created, m, t) ==
    LET msgs == IF created THEN <<>> ELSE h.msgs
        on == created \/ h.on
    IN  IF on /\ Len(msgs) < HappyLen /\ HappyClass(Len(msgs) + 1, m, t)
        THEN [on |-> TRUE, msgs |-> Append(msgs, m.text)]
        ELSE OffScript

---------------------------------------------------------------------------
(* The state machine *)

NoRequest == [sid |-> None, msg |-> "", reply |-> Reply(""), session_id |-> 0]

\* the worker threads that run the handler of chatserver.py; the
\* specifications that handle one request at a time keep `threads` empty
Threads == {1, 2}

\* a thread that handles no request.  While it handles one: pc is its place
\* in chat() and handle_booking(), arg and msg the request, sid the session
\* get_session returned, k the step of handle_booking, i the slot its
\* condition reads next, view the slots as the thread read them, f the frame
\* its step computed, reply the response it is about to return; overlap says
\* that another request was in progress during this one, replaced holds the
\* value that a write of this request replaced
IdleThread ==
    [pc |-> "idle", arg |-> None, msg |-> None, sid |-> 0, k |-> 0, i |-> 0,
     view |-> EmptySlots, f |-> [slots |-> EmptySlots, ret |-> None, raised |-> FALSE],
     reply |-> Reply(""), overlap |-> FALSE, replaced |-> None]

Init ==
    /\ server \in {"chatserver", "app"}
    /\ sessions = <<>>
    /\ file = <<>>
    /\ now = 1
    /\ turns = 0
    /\ last = NoRequest
    /\ happy = <<>>
    /\ log = <<>>
    /\ threads = <<>>

\* mutant: the slots are one dictionary shared by all the sessions
CsTurn_shared_slots(sid, m, pick) ==
    /\ server = "chatserver"
    /\ LET g == get_session(sessions, sid)
           r == cs_chat(g.store[g.sid], m, now, pick)
           store == [s \in DOMAIN g.store |-> [g.store[s] EXCEPT !.slots = r.session.slots]]
       IN  /\ sessions' = [store EXCEPT ![g.sid] = r.session]
           /\ file' = IF r.raised THEN g.store ELSE store
           /\ last' = [sid |-> sid, msg |-> m.text, reply |-> r.reply,
                       session_id |-> IF r.raised THEN Val(sid) ELSE r.session.id]
           /\ happy' = IF g.created
                       THEN happy @@ (g.sid :> HappyNext(OffScript, TRUE, m, now))
                       ELSE [happy EXCEPT ![g.sid] = HappyNext(@, FALSE, m, now)]
    /\ turns' = turns + 1
    /\ UNCHANGED <<server, now, log, threads>>

\* chatserver.py handles one request
CsTurn(sid, m, pick) ==
    /\ server = "chatserver"
    /\ LET g == get_session(sessions, sid)
           r == cs_chat(g.store[g.sid], m, now, pick)
           store == [g.store EXCEPT ![g.sid] = r.session]
       IN  /\ sessions' = store
           /\ file' = IF r.raised THEN g.store ELSE store
           /\ last' = [sid |-> sid, msg |-> m.text, reply |-> r.reply,
                       session_id |-> IF r.raised THEN Val(sid) ELSE r.session.id]
           /\ happy' = IF g.created
                       THEN happy @@ (g.sid :> HappyNext(OffScript, TRUE, m, now))
                       ELSE [happy EXCEPT ![g.sid] = HappyNext(@, FALSE, m, now)]
    /\ turns' = turns + 1
    /\ UNCHANGED <<server, now, log, threads>>

\* POST /chat of chatserver.py
CsChat(sid, m, pick) == turns < MaxTurns /\ CsTurn(sid, m, pick)

\* app.py handles one request; log keeps every exchange of a session, the
\* message as handled and the reply as returned
AppTurn(sid, m, pick) ==
    /\ server = "app"
    /\ LET g == app_get_session(sessions, sid)
           r == app_chat(g.store[g.sid], m, now, pick)
       IN  /\ sessions' = [g.store EXCEPT ![g.sid] = r.session]
           /\ last' = [sid |-> sid, msg |-> m.text, reply |-> r.reply,
                       session_id |-> g.sid]
           /\ log' = IF g.created
                     THEN log @@ (g.sid :> << <<m.msg, r.reply>> >>)
                     ELSE [log EXCEPT ![g.sid] = Append(@, <<m.msg, r.reply>>)]
    /\ turns' = turns + 1
    /\ UNCHANGED <<server, file, now, happy, threads>>

\* POST /chat of app.py
AppChat(sid, m, pick) == turns < MaxAppTurns /\ AppTurn(sid, m, pick)

\* the clock advances by a day
Tick ==
    /\ now < MaxClock
    /\ now' = now + 1
    /\ UNCHANGED <<server, sessions, file, turns, last, happy, log, threads>>

\* one client: its first request carries no session id, the later ones the
\* id the first response returned
ClientSid == IF DOMAIN sessions = {} THEN None ELSE Some(last.session_id)

CsNext == \E m \in CsMessages : \E pick \in cs_draws(m) : CsChat(ClientSid, m, pick)

AppNext == \E m \in AppMessages : \E pick \in app_draws(m) : AppChat(ClientSid, m, pick)

Next == CsNext \/ AppNext \/ Tick

Spec == Init /\ [][Next]_vars

---------------------------------------------------------------------------
(* A long conversation of one client with app.py *)

HistInit == Init /\ server = "app"

HistNext ==
    \E m \in HistMessages : \E pick \in app_draws(m) :
        turns < MaxHistTurns /\ AppTurn(ClientSid, m, pick)

HistSpec == HistInit /\ [][HistNext]_vars

---------------------------------------------------------------------------
(* Short conversations of one client, over all the messages *)

WideCsNext ==
    \E m \in WideCsMessages : \E pick \in cs_draws(m) :
        turns < MaxWideTurns /\ CsTurn(ClientSid, m, pick)

WideAppNext ==
    \E m \in WideAppMessages : \E pick \in app_draws(m) :
        turns < MaxWideTurns /\ AppTurn(ClientSid, m, pick)

WideNext == WideCsNext \/ WideAppNext

WideSpec == Init /\ [][WideNext]_vars

---------------------------------------------------------------------------
(* Callers that send no session id, an id the store does not hold, or the *)
(* id of any session of the store                                         *)

\* an id no uuid4() call returns
UnknownId == 0

Callers == {None, Some(UnknownId)} \cup {Some(i) : i \in DOMAIN sessions}

\* the store has room for the session the request creates, if it creates one
Room(sid) ==
    sid = None \/ Val(sid) \notin DOMAIN sessions
        => Cardinality(DOMAIN sessions) < MaxSessions

SessCsNext ==
    \E sid \in Callers : \E m \in SessCsMessages : \E pick \in cs_draws(m) :
        turns < MaxSessTurns /\ Room(sid) /\ CsTurn(sid, m, pick)

SessAppNext ==
    \E sid \in Callers : \E m \in SessAppMessages : \E pick \in app_draws(m) :
        turns < MaxSessTurns /\ Room(sid) /\ AppTurn(sid, m, pick)

SessNext == SessCsNext \/ SessAppNext

SessSpec == Init /\ [][SessNext]_vars

---------------------------------------------------------------------------
(* Conversations of one client that go on after a booking, a cancel or a *)
(* request for a restart                                                 *)

RestartCsNext ==
    \E m \in RestartCsMessages : \E pick \in cs_draws(m) :
        turns < MaxRestartTurns /\ CsTurn(ClientSid, m, pick)

RestartAppNext ==
    \E m \in RestartAppMessages : \E pick \in app_draws(m) :
        turns < MaxRestartTurns /\ AppTurn(ClientSid, m, pick)

RestartNext == RestartCsNext \/ RestartAppNext

RestartSpec == Init /\ [][RestartNext]_vars

---------------------------------------------------------------------------
(* Bookings with app.py for a day of the week, started on any weekday *)

WeekInit ==
    /\ server = "app"
    /\ sessions = <<>>
    /\ file = <<>>
    /\ now \in 1 .. MaxWeekClock
    /\ turns = 0
    /\ last = NoRequest
    /\ happy = <<>>
    /\ log = <<>>
    /\ threads = <<>>

WeekNext ==
    \E m \in WeekMessages : \E pick \in app_draws(m) :
        turns < MaxWeekTurns /\ AppTurn(ClientSid, m, pick)

WeekSpec == WeekInit /\ [][WeekNext]_vars

---------------------------------------------------------------------------
(* chatserver.py with its handler run by two threads.  chat() is a plain   *)
(* def, which the framework runs in a thread pool, and nothing in it or in *)
(* session_store.py takes a lock: the threads interleave between any two   *)
(* reads or writes of the session record.  A step below is one read or one *)
(* write of the record; what a thread computes in between is its own.      *)

\* step k of handle_booking on the slots as the thread read them
cs_step(k, f, m, t) ==
    CASE k = 1 -> cs_step_service(f, m)
      [] k = 2 -> cs_step_datetime(f, m, t)
      [] k = 3 -> cs_step_name(f, m)
      [] k = 4 -> cs_step_contact(f, m)

\* thread t goes on as record r says
Goes(t, r) == threads' = [threads EXCEPT ![t] = r]

\* what follows step k: the next step, after the last one the all() test
AfterStep(th) ==
    IF th.k < Len(SLOT_ORDER)
    THEN [th EXCEPT !.pc = "read", !.k = th.k + 1, !.i = 1]
    ELSE [th EXCEPT !.pc = "all", !.i = 1]

\* a request arrives and a thread calls get_session for it.  The first
\* request names no session; the client sends the later ones with the id a
\* response gave it, without waiting for the responses in between
Receive(t, m) ==
    /\ server = "chatserver"
    /\ turns < MaxConcTurns
    /\ threads[t].pc = "idle"
    /\ cs_command(m) = "none"
    /\ \/ DOMAIN sessions = {} /\ \A u \in Threads : threads[u].pc = "idle"
       \/ last.session_id \in DOMAIN sessions
    /\ LET g == get_session(sessions, ClientSid)
           busy == {u \in Threads \ {t} : threads[u].pc # "idle"}
       IN  /\ sessions' = g.store
           /\ file' = g.store
           /\ threads' = [u \in Threads |->
                            IF u = t
                            THEN [IdleThread EXCEPT !.pc = "route", !.arg = ClientSid,
                                                    !.msg = Some(m), !.sid = g.sid,
                                                    !.overlap = busy # {}]
                            ELSE IF u \in busy THEN [threads[u] EXCEPT !.overlap = TRUE]
                            ELSE threads[u]]
    /\ turns' = turns + 1
    /\ UNCHANGED <<server, now, last, happy, log>>

\* line 290: the thread reads last_intent and picks the branch
Route(t) ==
    LET th == threads[t]
        m == Val(th.msg)
    IN  /\ th.pc = "route"
        /\ IF sessions[th.sid].last_intent = Some("booking") \/ In("book", m)
                \/ cs_detect_service(m) # None
           THEN Goes(t, [th EXCEPT !.pc = "intent"])
           ELSE \E pick \in cs_draws(m) :
                    LET st == cs_handle_smalltalk(m, pick)
                    IN  Goes(t, [th EXCEPT !.pc = "respond",
                                           !.reply = IF st # None THEN Val(st)
                                                     ELSE Reply(CsHelpText)])
        /\ UNCHANGED <<server, sessions, file, now, turns, last, happy, log>>

\* line 291: the thread writes last_intent and enters handle_booking
SetIntent(t) ==
    LET th == threads[t]
    IN  /\ th.pc = "intent"
        /\ sessions' = [sessions EXCEPT ![th.sid].last_intent = Some("booking")]
        /\ Goes(t, [th EXCEPT !.pc = "read", !.k = 1, !.i = 1])
        /\ UNCHANGED <<server, file, now, turns, last, happy, log>>

\* the condition of step k, `slots[a] and ... and not slots[k]`, reads one
\* slot; when the operand read decides the condition the step runs on the
\* values read: it has a value to write, returns a prompt, or is passed over
ReadSlot(t) ==
    LET th == threads[t]
        v == sessions[th.sid].slots[SLOT_ORDER[th.i]]
        view == [th.view EXCEPT ![SLOT_ORDER[th.i]] = v]
        f == cs_step(th.k, [slots |-> view, ret |-> None, raised |-> FALSE],
                     Val(th.msg), now)
    IN  /\ th.pc = "read"
        /\ IF th.i < th.k /\ Filled(v)
           THEN Goes(t, [th EXCEPT !.i = th.i + 1, !.view = view])
           ELSE IF f.slots # view
           THEN Goes(t, [th EXCEPT !.pc = "write", !.view = view, !.f = f])
           ELSE IF f.ret # None
           THEN Goes(t, [th EXCEPT !.pc = "respond", !.view = view, !.reply = Val(f.ret)])
           ELSE Goes(t, AfterStep([th EXCEPT !.view = view]))
        /\ UNCHANGED <<server, sessions, file, now, turns, last, happy, log>>

\* `slots[k] = value`: the thread writes the slot of its step
WriteSlot(t) ==
    LET th == threads[t]
        key == SLOT_ORDER[th.k]
        old == sessions[th.sid].slots[key]
        th1 == [th EXCEPT !.view = th.f.slots,
                          !.replaced = IF Filled(old) /\ old # th.f.slots[key]
                                       THEN old ELSE th.replaced]
    IN  /\ th.pc = "write"
        /\ sessions' = [sessions EXCEPT ![th.sid].slots[key] = th.f.slots[key]]
        /\ IF th.f.ret # None
           THEN Goes(t, [th1 EXCEPT !.pc = "respond", !.reply = Val(th.f.ret)])
           ELSE Goes(t, AfterStep(th1))
        /\ UNCHANGED <<server, file, now, turns, last, happy, log>>

\* line 223: all(...) reads the slots one by one; lines 236-245, reached when
\* one is empty, prompt for the first empty one
ReadAll(t) ==
    LET th == threads[t]
        slots == sessions[th.sid].slots
        k == missing_from(slots, 1)
    IN  /\ th.pc = "all"
        /\ IF ~Filled(slots[SLOT_ORDER[th.i]])
           THEN Goes(t, [th EXCEPT !.pc = "respond",
                                   !.reply = IF k # None THEN Reply(cs_prompts(Val(k)))
                                             ELSE Reply(CsWrongText)])
           ELSE IF th.i < Len(SLOT_ORDER) THEN Goes(t, [th EXCEPT !.i = th.i + 1])
           ELSE Goes(t, [th EXCEPT !.pc = "book"])
        /\ UNCHANGED <<server, sessions, file, now, turns, last, happy, log>>

\* line 224: `{**slots, ...}` copies the slots
CopySlots(t) ==
    LET th == threads[t]
    IN  /\ th.pc = "book"
        /\ Goes(t, [th EXCEPT !.pc = "append", !.view = sessions[th.sid].slots])
        /\ UNCHANGED <<server, sessions, file, now, turns, last, happy, log>>

\* line 225: the copy is appended to the bookings
AppendBooking(t) ==
    LET th == threads[t]
    IN  /\ th.pc = "append"
        /\ sessions' = [sessions EXCEPT
                            ![th.sid].bookings = Append(@, cs_booking(th.view, now))]
        /\ Goes(t, [th EXCEPT !.pc = "confirm"])
        /\ UNCHANGED <<server, file, now, turns, last, happy, log>>

\* lines 226-233: the confirmation is made of the slots as they are now
Confirm(t) ==
    LET th == threads[t]
        slots == sessions[th.sid].slots
    IN  /\ th.pc = "confirm"
        /\ Goes(t, [th EXCEPT !.pc = "respond",
                               !.reply = ReplyWith(CsBookedText,
                                    [slots EXCEPT !.datetime = Some(Val(slots.datetime).pretty)])])
        /\ UNCHANGED <<server, sessions, file, now, turns, last, happy, log>>

\* make_response: the store is saved and the response returned
Respond(t) ==
    LET th == threads[t]
    IN  /\ th.pc = "respond"
        /\ file' = sessions
        /\ last' = [sid |-> th.arg, msg |-> Val(th.msg).text, reply |-> th.reply,
                    session_id |-> th.sid]
        /\ Goes(t, IdleThread)
        /\ UNCHANGED <<server, sessions, now, turns, happy, log>>

\* the server starts with its threads idle
ConcInit ==
    /\ server = "chatserver"
    /\ sessions = <<>>
    /\ file = <<>>
    /\ now = 1
    /\ turns = 0
    /\ last = NoRequest
    /\ happy = <<>>
    /\ log = <<>>
    /\ threads = [t \in Threads |-> IdleThread]

ConcNext ==
    \E t \in Threads :
        \/ \E m \in ConcMessages : Receive(t, m)
        \/ Route(t)
        \/ SetIntent(t)
        \/ ReadSlot(t)
        \/ WriteSlot(t)
        \/ ReadAll(t)
        \/ CopySlots(t)
        \/ AppendBooking(t)
        \/ Confirm(t)
        \/ Respond(t)

ConcSpec == ConcInit /\ [][ConcNext]_vars

---------------------------------------------------------------------------
(* Properties.  A step that handles a request is a ChatStep; Handled is the *)
(* session it was handled on, before (PreSession) and after (PostSession).  *)

SlotNames == {SLOT_ORDER[i] : i \in 1 .. Len(SLOT_ORDER)}

Pos(k) == CHOOSE i \in 1 .. Len(SLOT_ORDER) : SLOT_ORDER[i] = k

ChatStep == turns' = turns + 1

Handled == last'.session_id

PreSession ==
    IF Handled \in DOMAIN sessions THEN sessions[Handled]
    ELSE IF server = "app" THEN app_default_session(Handled)
    ELSE default_session(Handled)

PostSession == sessions'[Handled]

HandledMsg == MsgOf(last'.msg)

LastMsg == MsgOf(last.msg)

LastSession == sessions[last.session_id]

Command(m) == IF server = "app" THEN app_command(m) ELSE cs_command(m)

Detect(m) == IF server = "app" THEN app_detect_service(m) ELSE cs_detect_service(m)

Snapshot(b) == [k \in SlotNames |-> b[k]]

\* the reply holds the word 'Booked': only the confirmation template does
ContainsBooked(reply) == reply.text = CsBookedText

Finalized(reply) == reply.text \in {CsBookedText, AppBookedText}

\* the slot a reply asks the user for, None when it asks for none
AsksFor(reply) ==
    IF "step" \in DOMAIN reply THEN Some(reply.step)
    ELSE IF reply.text \in {CsServicesText, cs_prompts("service")} THEN Some("service")
    ELSE IF reply.text \in {CsAckText, CsRejectText, cs_prompts("datetime")} THEN Some("datetime")
    ELSE IF reply.text \in {CsNameText, cs_prompts("name")} THEN Some("name")
    ELSE IF reply.text \in {CsBadContactText, cs_prompts("contact")} THEN Some("contact")
    ELSE None

---------------------------------------------------------------------------
(* C1 *)

C1_After(s, n) ==
    /\ n = 1 => Filled(sessions'[s].slots.service)
    /\ n = 2 => Filled(sessions'[s].slots.datetime)
    /\ n = 3 => Filled(sessions'[s].slots.name)
    /\ n = 4 => /\ Filled(sessions'[s].slots.contact)
                /\ ContainsBooked(last'.reply)
                /\ Len(sessions'[s].bookings) = Len(sessions[s].bookings) + 1

\* C1: on chatserver.py the first four turns of a new session, being a
\* message that mentions a service, one whose date resolves to a future time
\* and holds no name phrase, a name phrase, and one with at least 7 digits,
\* none of them a pay, opening-hours, contact-details or cancel command, leave
\* service, datetime and name filled after the first, second and third, and
\* the fourth fills contact, answers 'Booked' and adds one booking.
C1_HappyPath ==
    [][ChatStep /\ Handled \in DOMAIN happy' /\ happy'[Handled].on
            /\ (\A i \in 1 .. Len(happy'[Handled].msgs) :
                    cs_command(MsgOf(happy'[Handled].msgs[i])) = "none")
        => C1_After(Handled, Len(happy'[Handled].msgs))]_vars

---------------------------------------------------------------------------
(* C2 *)

\* C2: in both servers the turn that finalizes a booking leaves the session
\* with all four slots empty again.
C2_SlotsResetOnCompletion ==
    turns > 0 /\ Finalized(last.reply) => LastSession.slots = EmptySlots

---------------------------------------------------------------------------
(* C3 *)

\* C3: in both servers no turn replaces the value of a filled slot by another
\* value; a filled slot becomes empty only when a cancel command is handled on
\* its session, and in app.py the name slot not even then.
C3_FilledSlotsKept ==
    [][ChatStep =>
        \A s \in DOMAIN sessions : \A k \in SlotNames :
            Filled(sessions[s].slots[k]) =>
                \/ sessions'[s].slots[k] = sessions[s].slots[k]
                \/ /\ sessions'[s].slots[k] = None
                   /\ s = Handled
                   /\ Command(HandledMsg) = "cancel"
                   /\ ~(server = "app" /\ k = "name")]_vars

\* a booking turn whose message names another service than the one stored
C3_Witness ==
    /\ turns > 0
    /\ Command(LastMsg) = "none"
    /\ LastSession.last_intent = Some("booking")
    /\ Detect(LastMsg) # None
    /\ Filled(LastSession.slots.service)
    /\ Detect(LastMsg) # LastSession.slots.service

---------------------------------------------------------------------------
(* C4 *)

\* C4: in both servers, when the reply of a turn asks for a slot, every slot
\* before it in the order service, datetime, name, contact is filled.
C4_PromptOrder ==
    turns > 0 /\ AsksFor(last.reply) # None =>
        \A j \in 1 .. Pos(Val(AsksFor(last.reply))) - 1 :
            Filled(LastSession.slots[SLOT_ORDER[j]])

C4_Witness ==
    /\ turns > 0
    /\ AsksFor(last.reply) = Some("name")
    /\ Filled(LastSession.slots.datetime)

---------------------------------------------------------------------------
(* C5 *)

C5_Case ==
    /\ server = "chatserver" /\ ChatStep
    /\ Handled \in DOMAIN sessions
    /\ Filled(PreSession.slots.service)
    /\ ~Filled(PreSession.slots.datetime)
    /\ cs_resolve(HandledMsg, now) # None
    /\ Val(cs_resolve(HandledMsg, now)) < now

C5_Rejected ==
    /\ ~Filled(PostSession.slots.datetime)
    /\ PostSession.slots.name = PreSession.slots.name
    /\ PostSession.slots.contact = PreSession.slots.contact
    /\ PostSession.bookings = PreSession.bookings
    /\ last'.reply.text = CsRejectText

\* C5: on chatserver.py, with service filled and datetime empty, a message
\* that is no pay, opening-hours, contact-details or cancel command and whose
\* date resolves before the current time leaves datetime empty, name and
\* contact as they were, appends no booking and is answered with the
\* rejection prompt.
C5_PastDate == [][C5_Case /\ cs_command(HandledMsg) = "none" => C5_Rejected]_vars

---------------------------------------------------------------------------
(* C6 *)

\* the message is handled by app.py's booking branch
AppBookingTurn(session, m) ==
    /\ app_command(m) = "none"
    /\ ~(app_extract_name(m) # None /\ ~Filled(session.slots.name))
    /\ (session.last_intent = Some("booking") \/ In("book", m))

\* C6: on app.py, with datetime empty, a booking-branch message whose date
\* resolves before the current time leaves datetime empty and the reply does
\* not go on to ask for the name or the contact.
C6_PastDateRejected ==
    [][server = "app" /\ ChatStep /\ Handled \in DOMAIN sessions
            /\ ~Filled(PreSession.slots.datetime)
            /\ AppBookingTurn(PreSession, HandledMsg)
            /\ app_parse_datetime_text(HandledMsg, now) # None
            /\ Val(app_parse_datetime_text(HandledMsg, now)).t < now
        => /\ ~Filled(PostSession.slots.datetime)
           /\ AsksFor(last'.reply) \notin {Some("name"), Some("contact")}]_vars

---------------------------------------------------------------------------
(* C7 *)

IsStep(reply, k) == "step" \in DOMAIN reply /\ reply.step = k

\* turn j of the history was a booking-branch turn that left the slot k it
\* needed empty
FailsAt(h, j, k) ==
    /\ IsStep(h[j][2], k)
    /\ IF j = 1 THEN k = SLOT_ORDER[1] ELSE IsStep(h[j - 1][2], k)

\* C7: on app.py the third of three consecutive booking-branch turns that fail
\* to fill the slot they need is answered with the pause message of
\* retry_prompt, not with another request for the slot, and no retry counter
\* exceeds 2.
C7_RetryCeiling ==
    server = "app" =>
        \A s \in DOMAIN sessions :
            LET h == sessions[s].history
            IN  /\ \A k \in DOMAIN sessions[s].retries : sessions[s].retries[k] <= RetryCeiling
                /\ \A j \in 1 .. Len(h) - 2 : \A k \in SlotNames :
                        /\ FailsAt(h, j, k) /\ FailsAt(h, j + 1, k)
                        /\ (IsStep(h[j + 2][2], k) \/ h[j + 2][2].text = AppPauseText)
                        => h[j + 2][2].text = AppPauseText

---------------------------------------------------------------------------
(* C8 *)

---------------------------------------------------------------------------
(* C9 *)

---------------------------------------------------------------------------
(* C10 *)

C10_Case ==
    /\ server = "chatserver" /\ ChatStep
    /\ Handled \in DOMAIN sessions
    /\ Filled(PreSession.slots.service)
    /\ Filled(PreSession.slots.datetime)
    /\ Filled(PreSession.slots.name)
    /\ ~Filled(PreSession.slots.contact)

C10_Outcome(stored) ==
    IF HandledMsg.digits < 7 /\ ~HandledMsg.emailRe
    THEN /\ PostSession.slots.contact = None
         /\ PostSession.bookings = PreSession.bookings
         /\ last'.reply.text = CsBadContactText
    ELSE /\ PostSession.slots.contact = Some(stored)
         /\ Len(PostSession.bookings) = Len(PreSession.bookings) + 1
         /\ last'.reply.text = CsBookedText

\* C10 as stated: on chatserver.py, with service, datetime and name filled and
\* contact empty, a message with fewer than 7 digits and no email shape leaves
\* contact empty, appends no booking and gets the invalid-contact prompt; any
\* other message is stored verbatim as contact and the booking is finalized.
C10_ContactAsStated == [][C10_Case => C10_Outcome(last'.msg)]_vars

\* C10 (amended): the same, for a message that is no pay, opening-hours,
\* contact-details or cancel command, and the contact stored is the message
\* less its leading and trailing whitespace.
C10_Contact ==
    [][C10_Case /\ cs_command(HandledMsg) = "none" => C10_Outcome(HandledMsg.msg)]_vars

\* an email-shaped message stored as contact by the turn that books
C10_Witness ==
    /\ server = "chatserver" /\ turns > 0
    /\ LastMsg.emailRe /\ LastMsg.digits < 7
    /\ last.reply.text = CsBookedText
    /\ LastSession.slots.contact = Some(LastMsg.msg)
    /\ LastMsg.msg # last.msg
    /\ Len(LastSession.bookings) = 1

---------------------------------------------------------------------------
(* C11 *)

Min(a, b) == IF a < b THEN a ELSE b

\* the last k entries of a sequence
LastN(q, k) == SubSeq(q, Len(q) - Min(Len(q), k) + 1, Len(q))

\* C11: in app.py, after the n messages handled on a session its history holds
\* exactly the latest min(n, 10) exchanges, in the order they were handled, so
\* never more than 10.
C11_HistoryBound ==
    server = "app" =>
        \A s \in DOMAIN sessions :
            /\ Len(sessions[s].history) = Min(Len(log[s]), HistoryCap)
            /\ sessions[s].history = LastN(log[s], HistoryCap)

\* a session that has handled more messages than the history keeps
C11_Witness ==
    \E s \in DOMAIN sessions :
        /\ Len(log[s]) = HistoryCap + 2
        /\ Len(sessions[s].history) = HistoryCap
        /\ sessions[s].history[1] = log[s][3]
        /\ log[s][1] # log[s][3]

---------------------------------------------------------------------------
(* C12 *)

\* the branch of app.py's chat() that answers the message
AppBranch(session, m) ==
    IF app_command(m) # "none" THEN app_command(m)
    ELSE IF app_extract_name(m) # None /\ ~Filled(session.slots.name) THEN "name"
    ELSE IF session.last_intent = Some("booking") \/ In("book", m) THEN "booking"
    ELSE IF \E pick \in app_draws(m) : app_handle_smalltalk(m, session, pick) # None
    THEN "smalltalk"
    ELSE "default"

\* C12: in app.py every turn, whichever branch of chat() answers it, appends
\* one entry to the history of its session (cut to the last 10), and the entry
\* is the message handled and the reply returned.
C12_EveryBranchRemembers ==
    [][server = "app" /\ ChatStep =>
        /\ AppBranch(PreSession, HandledMsg) \in
                {"pay", "hours", "contact", "cancel", "name", "booking",
                 "smalltalk", "default"}
        /\ PostSession.history =
                LastN(Append(PreSession.history, <<HandledMsg.msg, last'.reply>>),
                      HistoryCap)]_vars

\* a session answered by the name capture, then the default fallback, then
\* the cancel branch, all three recorded
C12_Witness ==
    /\ server = "app" /\ turns = 3
    /\ Len(LastSession.history) = 3
    /\ LastSession.history[1][2].text = AppMeetText
    /\ LastSession.history[2][2].text = AppDefaultNameText
    /\ LastSession.history[3][2].text = AppCancelText
    /\ LastSession.history[3] = <<LastMsg.msg, last.reply>>

---------------------------------------------------------------------------
(* C13 *)

\* the extractor of slot k accepts the message
Extractable(k, m, t) ==
    CASE k = "service" -> app_detect_service(m) # None
      [] k = "datetime" -> app_parse_datetime_text(m, t) # None
      [] k = "name" -> app_extract_name(m) # None
      [] k = "contact" -> app_is_valid_contact(m)

\* the empty slots of the session the message carries a value for
Carried(session, m, t) ==
    {k \in SlotNames : ~Filled(session.slots[k]) /\ Extractable(k, m, t)}

\* C13: in app.py a message that is no pay, hours, contact or cancel command,
\* says 'book' or follows a booking turn, and carries values for several empty
\* slots has all of those slots filled when its turn ends.
C13_MultiSlotFill ==
    [][server = "app" /\ ChatStep /\ app_command(HandledMsg) = "none"
            /\ (PreSession.last_intent = Some("booking") \/ In("book", HandledMsg))
            /\ Cardinality(Carried(PreSession, HandledMsg, now)) >= 2
        => \A k \in Carried(PreSession, HandledMsg, now) :
                Filled(PostSession.slots[k])]_vars

---------------------------------------------------------------------------
(* C14 *)

\* the configured names; like every stored name they are capitalized words,
\* so equality up to case is equality
ServiceNames == {SERVICES[i] : i \in 1 .. Len(SERVICES)}

\* C14: in app.py the name slot never holds a configured service name.
C14_NameIsNoService ==
    server = "app" =>
        \A s \in DOMAIN sessions :
            Filled(sessions[s].slots.name) =>
                Val(sessions[s].slots.name) \notin ServiceNames

---------------------------------------------------------------------------
(* C15 *)

\* C15 as stated: in app.py, at the end of every turn the filled slots of a
\* session form a prefix of service, datetime, name, contact, so that
\* first_missing_slot never returns a slot before a filled one.
C15_FilledPrefixAsStated ==
    server = "app" =>
        \A s \in DOMAIN sessions : \A j \in 1 .. Len(SLOT_ORDER) :
            Filled(sessions[s].slots[SLOT_ORDER[j]]) =>
                \A i \in 1 .. j - 1 : Filled(sessions[s].slots[SLOT_ORDER[i]])

\* C15 (amended): in app.py, in every reachable session, first_missing_slot
\* returns an empty slot with every slot before it in the order filled, and
\* returns none exactly when all four are filled; slots after the one it
\* returns may be filled.
C15_FirstMissing ==
    server = "app" =>
        \A s \in DOMAIN sessions :
            LET slots == sessions[s].slots
                r == first_missing_slot(slots)
            IN  /\ r = None <=> AllFilled(slots)
                /\ r # None =>
                    /\ ~Filled(slots[Val(r)])
                    /\ \A i \in 1 .. Pos(Val(r)) - 1 : Filled(slots[SLOT_ORDER[i]])

\* a session whose first missing slot lies before a filled one
C15_Witness ==
    /\ server = "app"
    /\ \E s \in DOMAIN sessions :
        /\ first_missing_slot(sessions[s].slots) = Some("service")
        /\ Filled(sessions[s].slots.datetime)
        /\ sessions[s].last_intent = Some("booking")

---------------------------------------------------------------------------
(* C16, C17, C18: the session of a request *)

\* the request handled by the step names a session of the store
Known == last'.sid # None /\ Val(last'.sid) \in DOMAIN sessions

\* the records chat() can leave of the session it was given
Outcomes(session, m) ==
    IF server = "app"
    THEN {app_chat(session, m, now, pick).session : pick \in app_draws(m)}
    ELSE {cs_chat(session, m, now, pick).session : pick \in cs_draws(m)}

\* C16: in both servers a request with no session id, or with one the store
\* does not hold, is not answered with an error; it adds one session to the
\* store under a new id, which is not the id the caller sent, and the record
\* left is that of the message handled on a session with empty slots, no
\* bookings and no last_intent.
C16_LazyCreation ==
    [][ChatStep /\ ~Known =>
        /\ last'.reply.text # CsErrorText
        /\ Handled \notin DOMAIN sessions
        /\ DOMAIN sessions' = DOMAIN sessions \cup {Handled}
        /\ last'.sid # None => Handled # Val(last'.sid)
        /\ PreSession.slots = EmptySlots
        /\ PreSession.bookings = <<>>
        /\ PreSession.last_intent = None
        /\ PostSession \in Outcomes(PreSession, HandledMsg)
        /\ PostSession.id = Handled]_vars

\* a second session created for a caller that sent an id the store lacks
C16_Witness ==
    /\ turns > 1
    /\ last.sid = Some(UnknownId)
    /\ Cardinality(DOMAIN sessions) = 2
    /\ last.session_id \in DOMAIN sessions
    /\ last.session_id # UnknownId
    /\ Filled(LastSession.slots.service)

\* C17: in both servers a request that names a session of the store is handled
\* on that record and answered with the same id; no step removes a session
\* from the store or changes the id a record holds.
C17_StableSession ==
    [][ChatStep =>
        /\ DOMAIN sessions \subseteq DOMAIN sessions'
        /\ \A s \in DOMAIN sessions' : sessions'[s].id = s
        /\ Known =>
            /\ last'.session_id = Val(last'.sid)
            /\ DOMAIN sessions' = DOMAIN sessions
            /\ sessions'[Val(last'.sid)] \in
                    Outcomes(sessions[Val(last'.sid)], HandledMsg)]_vars

\* the older of two sessions named again and changed by the request
C17_Witness ==
    /\ turns > 2
    /\ Cardinality(DOMAIN sessions) = 2
    /\ last.sid # None
    /\ last.session_id = Val(last.sid)
    /\ \E s \in DOMAIN sessions : s > last.session_id
    /\ Filled(LastSession.slots.datetime)

\* C18: in both servers the step that handles a message on one session leaves
\* the record of every other session of the store as it was.
C18_OtherSessionsUntouched ==
    [][ChatStep =>
        \A s \in DOMAIN sessions : s # Handled => sessions'[s] = sessions[s]]_vars

\* a cancel on one session while another holds a service
C18_Witness ==
    /\ turns > 2
    /\ Command(LastMsg) = "cancel"
    /\ LastSession.slots = EmptySlots
    /\ \E s \in DOMAIN sessions :
        /\ s # last.session_id
        /\ Filled(sessions[s].slots.service)

---------------------------------------------------------------------------
(* C19 *)

\* the canned reply of a shortcut
Canned(c) ==
    CASE c = "pay" -> IF server = "app" THEN AppPayText ELSE CsPayText
      [] c = "hours" -> IF server = "app" THEN AppHoursText ELSE CsHoursText
      [] c = "contact" -> IF server = "app" THEN AppContactText ELSE CsContactText

\* C19: in both servers a message matched as the pay shortcut, the opening
\* hours query or the contact details query gets the canned reply and leaves
\* the slots, the bookings, the last_intent and, in app.py, the retries of
\* its session as they were.
C19_ShortcutsFrame ==
    [][ChatStep /\ Command(HandledMsg) \in {"pay", "hours", "contact"} =>
        /\ last'.reply.text = Canned(Command(HandledMsg))
        /\ PostSession.slots = PreSession.slots
        /\ PostSession.bookings = PreSession.bookings
        /\ PostSession.last_intent = PreSession.last_intent
        /\ server = "app" => /\ PostSession.retries = PreSession.retries
                             /\ PostSession.current_step = PreSession.current_step]_vars

\* an hours query during a booking, its text naming a service and holding
\* digits enough for a contact
C19_Witness ==
    /\ turns > 1
    /\ Command(LastMsg) = "hours"
    /\ Detect(LastMsg) # None
    /\ LastMsg.digits >= 7
    /\ LastSession.last_intent = Some("booking")
    /\ Filled(LastSession.slots.service)
    /\ Detect(LastMsg) # LastSession.slots.service
    /\ ~Filled(LastSession.slots.datetime)
    /\ ~Filled(LastSession.slots.contact)

---------------------------------------------------------------------------
(* C20 *)

\* the text holds a date the server's parser resolves
HasDate(m) ==
    IF server = "app" THEN app_parse_datetime_text(m, now) # None
    ELSE cs_resolve(m, now) # None

\* none of the server's name patterns finds a name phrase in the text
NoNamePhrase(m) ==
    IF server = "app" THEN \A i \in 1 .. Len(m.appName) : m.appName[i] = None
    ELSE \A i \in 1 .. Len(m.csName) : m.csName[i] = None

\* a message that holds a date and nothing else the handlers look for
BareDate(m) ==
    /\ HasDate(m)
    /\ ~In("book", m)
    /\ Detect(m) = None
    /\ Command(m) = "none"
    /\ NoNamePhrase(m)

\* the parser of the server returns the date
Acceptable(m) ==
    IF server = "app" THEN app_parse_datetime_text(m, now) # None
    ELSE ~cs_compare_raises(m, now) /\ cs_parse_datetime_text(m, now) # None

\* what the booking branch answers to the message on the session
BookingReply(session, m) ==
    IF server = "app"
    THEN app_handle_booking([session EXCEPT !.last_intent = Some("booking")], m, now).reply
    ELSE cs_handle_booking([session EXCEPT !.last_intent = Some("booking")], m, now).reply

\* C20: in both servers, on a session whose last_intent is 'booking', a
\* message that holds only a date, with no 'book', no service name, no utility
\* or cancel keyword and no name phrase, is answered by the booking branch,
\* and fills the datetime slot when the parser accepts the date, the service
\* is filled and datetime is empty.
C20_BareDateFollowUp ==
    [][ChatStep /\ Handled \in DOMAIN sessions
            /\ PreSession.last_intent = Some("booking")
            /\ BareDate(HandledMsg)
        => /\ last'.reply = BookingReply(PreSession, HandledMsg)
           /\ PostSession.last_intent = Some("booking")
           /\ (Acceptable(HandledMsg) /\ Filled(PreSession.slots.service)
                    /\ ~Filled(PreSession.slots.datetime))
                => Filled(PostSession.slots.datetime)]_vars

---------------------------------------------------------------------------
(* C21 *)

\* the messages that ask for a restart
RestartCommand(m) == m \in {m_restart, m_reset}

\* what a restart leaves of a session: no slot, no history, no retry counter
Cleared(session) ==
    /\ session.slots = EmptySlots
    /\ server = "app" => session.history = <<>> /\ session.retries = <<>>

\* C21: a restart command message resets the session: after the turn the
\* slots, the history and the retries are cleared and the bookings list is
\* the one of before the turn
C21_RestartResets ==
    [][ChatStep /\ RestartCommand(HandledMsg)
        => /\ Cleared(PostSession)
           /\ PostSession.bookings = PreSession.bookings]_vars

---------------------------------------------------------------------------
(* C22 *)

\* the slots the turn filled: empty before it, filled after it
FilledInTurn == {k \in SlotNames : ~Filled(PreSession.slots[k]) /\ Filled(PostSession.slots[k])}

\* C22: a turn appends a booking only if it filled at least one slot during
\* that same turn: a message that fills no slot, sent after a booking was
\* finalized, appends no other booking
C22_BookingNeedsFilledSlot ==
    [][ChatStep /\ Len(PostSession.bookings) > Len(PreSession.bookings)
        => FilledInTurn # {}]_vars

---------------------------------------------------------------------------
(* C23 *)

\* the reply is one of the four deflections of handle_offscript
Deflection(reply) ==
    reply.text \in {AppFunText, AppClarifyText, AppSilenceText, AppIrrelevantText}

\* C23: in app.py's booking branch the deflection of handle_offscript is
\* issued only for a message that failed to fill the slot that was first
\* missing at the start of the turn; a message that fills that slot is
\* answered with the ask_for_step prompt for the next missing slot
C23_DeflectionOnlyOnFailure ==
    [][server = "app" /\ ChatStep /\ AppBookingTurn(PreSession, HandledMsg)
            /\ first_missing_slot(PreSession.slots) # None
        => LET step == Val(first_missing_slot(PreSession.slots))
               next == first_missing_slot(PostSession.slots)
           IN  /\ Deflection(last'.reply) => ~Filled(PostSession.slots[step])
               /\ Filled(PostSession.slots[step]) /\ next # None
                    => last'.reply = ask_for_step(Val(next))]_vars

---------------------------------------------------------------------------
(* C24 *)

\* every reply of the smalltalk branches
SmalltalkTexts ==
    UNION {{SMALLTALK[i].replies[j] : j \in 1 .. Len(SMALLTALK[i].replies)} :
                i \in 1 .. Len(SMALLTALK)}
        \cup UNION {{APP_SMALLTALK[k][j] : j \in 1 .. Len(APP_SMALLTALK[k])} :
                        k \in DOMAIN APP_SMALLTALK}
        \cup {AppGreetNameText}

\* the replies of the default fallbacks
DefaultTexts == {CsHelpText, AppDefaultText, AppDefaultNameText}

Booking(session) == session.last_intent = Some("booking")

\* C24: once a session's last_intent is 'booking' it is 'booking' in every
\* later state, a cancel and a completed booking included, and no message on
\* that session is answered by the smalltalk branch or the default fallback
C24_BookingIntentSticks ==
    [][\A s \in DOMAIN sessions :
            Booking(sessions[s])
                => /\ s \in DOMAIN sessions' /\ Booking(sessions'[s])
                   /\ ChatStep /\ s = Handled
                        => last'.reply.text \notin SmalltalkTexts \cup DefaultTexts]_vars

\* "thanks", a smalltalk message, was sent after a booking was finalized and
\* the booking branch answered it
C24_Witness ==
    /\ last.msg = "thanks"
    /\ last.session_id \in DOMAIN sessions
    /\ Booking(LastSession)
    /\ LastSession.bookings # <<>>
    /\ Finalized(last.reply)

---------------------------------------------------------------------------
(* C25 *)

\* the filled slots are the first n of the order
PrefixFilled(slots, n) ==
    \A i \in 1 .. Len(SLOT_ORDER) : Filled(slots[SLOT_ORDER[i]]) <=> i <= n

\* C25: in chatserver.py, at the end of each turn of every session the chat
\* handler created, the filled slots are a prefix of the order service,
\* datetime, name, contact: datetime is filled only if service is, name only
\* if datetime is, contact only if name is
C25_CsFilledPrefix ==
    server = "chatserver" =>
        \A s \in DOMAIN sessions :
            \E n \in 0 .. Len(SLOT_ORDER) : PrefixFilled(sessions[s].slots, n)

\* a session of chatserver.py that got its name in its last turn and has no
\* contact yet
C25_Witness ==
    /\ server = "chatserver"
    /\ last.session_id \in DOMAIN sessions
    /\ PrefixFilled(LastSession.slots, 3)
    /\ cs_extract_name(LastMsg) = LastSession.slots.name

---------------------------------------------------------------------------
(* C26 *)

\* thread t has replaced, by the write of its step, a value that another
\* request wrote to the slot after t read the slot as empty
LostUpdate(t) == threads[t].replaced # None

\* C26: without a lock, two requests for one session handled concurrently
\* can both read a slot as empty and the later write then replaces the value
\* the earlier one wrote; a request handled with no other request in
\* progress never replaces the value of a slot
C26_LostUpdateNeedsOverlap ==
    \A t \in Threads : LostUpdate(t) => threads[t].overlap

\* the lost update: the client was answered that its service is booked, the
\* answer of the other thread's request, and the write of thread t, which had
\* read the slot as empty, has replaced that service by another one
C26_Witness ==
    \E t \in Threads :
        /\ LostUpdate(t)
        /\ threads[t].view.service # threads[t].replaced
        /\ last.reply.text = CsAckText
        /\ last.reply.args.service = threads[t].replaced
        /\ sessions[threads[t].sid].slots.service # last.reply.args.service

---------------------------------------------------------------------------
(* C27 *)

\* the message names a day of the week and neither today nor tomorrow
NamesDay(m) ==
    /\ ~In("today", m) /\ ~In("tomorrow", m)
    /\ \E i \in 1 .. Len(WEEKDAYS) : In(WEEKDAYS[i], m)

\* the index, from 0, of the first weekday the message names
NamedDay(m) ==
    (CHOOSE i \in 1 .. Len(WEEKDAYS) :
        In(WEEKDAYS[i], m) /\ \A j \in 1 .. i - 1 : ~In(WEEKDAYS[j], m)) - 1

\* the days from now to the date the turn stored
Ahead == Val(PostSession.slots.datetime).t - now

\* C27: in app.py, whatever the current weekday w and the weekday i a
\* message names (with neither 'today' nor 'tomorrow' in it), the date
\* parse_datetime_text computes is 1 to 7 days ahead and falls on weekday i:
\* the next occurrence of that weekday, never the current day
C27_NextWeekday ==
    [][server = "app" /\ ChatStep /\ NamesDay(HandledMsg)
            /\ ~Filled(PreSession.slots.datetime) /\ Filled(PostSession.slots.datetime)
        => /\ Ahead \in 1 .. 7
           /\ (weekday(now) + Ahead) % 7 = NamedDay(HandledMsg)]_vars

\* a booking for the weekday of the current day was stored for a week later
C27_Witness ==
    /\ server = "app"
    /\ last.session_id \in DOMAIN sessions
    /\ NamesDay(LastMsg)
    /\ NamedDay(LastMsg) = weekday(now)
    /\ Filled(LastSession.slots.datetime)
    /\ Val(LastSession.slots.datetime).t = now + 7

=============================================================================
